---- MODULE Spec2Model ----
(***************************************************************************)
(* Model of package channel (MichaelMure/channel): the type C[T], a Go     *)
(* channel `c` paired with a sticky error `err`, its constructors, its     *)
(* read side (Read, ReadContext, Rest, Range, Drain), its write side       *)
(* (Write, WriteContext), its termination calls (SetError, Close,          *)
(* CloseWithError) and the relay goroutine of Intercept/InterceptContext.  *)
(*                                                                         *)
(* The Go channel is modelled by its run-time semantics: a FIFO buffer of  *)
(* fixed capacity, a closed flag, blocking send and receive, a direct      *)
(* hand-off from a blocked sender to a blocked receiver, a panic on send   *)
(* to or close of a closed channel.  The field accesses of SetError and    *)
(* Close (load of c.err, store of c.err, close(c.c)) are separate steps,   *)
(* since the code takes no lock around them.                               *)
(***************************************************************************)
EXTENDS Integers, Sequences, FiniteSets, TLC

\* ----------------------------------------------------------------- bounds
MaxCap == 1
MaxWrites == 2
MaxReads == 2

\* ------------------------------------------------------------ value sets
Nil == "nil"
EOF == "io.EOF"
Canceled == "context.Canceled"
Errs == {EOF, "E1"}
ErrArgs == Errs \cup {Nil}
Zero == 0
Tasks == {"p1", "p2"}
Owner == "p1"
Readers == {"r1", "r2"}
RestCallers == {"r1"}
CtxCallers == {"r2"}
Relay == "r1"
FnErrs == {EOF, "E2"}
FnResults == FnErrs \cup {Nil}
NoCall == [call |-> "none", v |-> Zero, e |-> Nil, was |-> Nil]
NoOutcome == [call |-> "none", res |-> "none"]
NoReturn == [op |-> "none", vals |-> <<>>, e |-> Nil, got |-> <<>>]
NotClosed == [op |-> "none", arg |-> Nil, was |-> Nil]

VARIABLES
    cap,        \* cap(c.c), fixed by the constructor
    buf,        \* the values queued in c.c, oldest first
    closed,     \* c.c has been closed
    err,        \* c.err
    closedBy,   \* history: the call whose close(c.c) closed the channel, its
                \* argument, and c.err when that call began
    written,    \* history: the values whose send completed, in order
    log,        \* history: every return of Read/ReadContext, in return order
    opc,        \* per task: position inside the current producer-side call
    ocur,       \* per task: the current call and its argument
    outcome,    \* per task: the last finished call and how it ended
    overlap,    \* history: two termination calls have been in progress at once
    rpc,        \* per reader: position inside the current read-side call
    rop,        \* per reader: the current read-side call
    res,        \* per reader: Rest's result slice under construction
    got,        \* history, per reader: the values the Reads of the current Rest returned
    ret,        \* per reader: what its last finished Rest returned
    cancelled,  \* the context handed to the ...Context calls is done
    rv,         \* per reader: the value Range handed to its callback
    aborted,    \* history: the values whose WriteContext returned the context's error
    kmode,      \* the relay task: "Intercept", "InterceptContext", or "none"
    kpc,        \* the relay task: position in the goroutine of Intercept
    out,        \* the channel made by Intercept: its buffer, closed flag and err
    outClosedN, \* history: how many times close(out.c) has been executed
    fncalls,    \* history: the calls of the intercepting fn, value and result
    olog,       \* history: every return of the downstream consumer's Read
    dpc         \* the downstream consumer: position inside its Read

vars == <<cap, buf, closed, err, closedBy, written, log, opc, ocur,
          outcome, overlap, rpc, rop, res, got, ret, cancelled, rv, aborted,
          kmode, kpc, out, outClosedN, fncalls, olog, dpc>>
chanVars == <<cap, buf, closed, err, closedBy>>
ownerVars == <<opc, ocur, outcome, overlap>>
readerVars == <<rpc, rop, res, got, ret, rv>>
relayVars == <<kmode, kpc, out, outClosedN, fncalls, olog, dpc>>

\* --------------------------------------------------------------- helpers
\* a slice of n zero values: make([]T, n)
Zeros(n) == [i \in 1..n |-> Zero]

\* Len(), Cap(), Err()
ChanLen_Capacity == cap
ChanLen == Len(buf)
ChanCap == cap
Err == err

\* SetError: "if c.err != nil { panic }"
SetErrorPanics_Never(cur) == FALSE
SetErrorPanics(cur) == cur # Nil

\* SetError: "if err == nil { err = io.EOF }"
Normalize_KeepsNil(e) == e
Normalize(e) == IF e = Nil THEN EOF ELSE e

\* Close: "if c.err == nil", the condition under which Close stores io.EOF
CloseStores_Never(cur) == FALSE
CloseStores_Always(cur) == TRUE
CloseStores(cur) == cur = Nil

\* close(c.c) panics on a closed channel
ClosePanics_Never(isClosed) == FALSE
ClosePanics(isClosed) == isClosed

\* c.c <- v panics on a closed channel
SendPanics_Never(isClosed) == FALSE
SendPanics(isClosed) == isClosed

\* v, ok := <-c.c takes the oldest queued value
RecvValue(q) == Head(q)
RecvRest_NoPop(q) == q
RecvRest(q) == Tail(q)

\* v, ok := <-c.c yields ok = false once the channel is closed and drained
RecvNotOk_IgnoresQueue(isClosed, q) == isClosed
RecvNotOk(isClosed, q) == isClosed /\ q = <<>>

\* Read: "if !ok { return zero, c.Err() }"
ReadClosed_AlwaysEOF(e) == [v |-> Zero, e |-> EOF]
ReadClosed(e) == [v |-> Zero, e |-> e]

\* ReadContext: "case <-ctx.Done(): return zero, ctx.Err()"
ReadCancelled_ChanErr(ctxErr) == [v |-> Zero, e |-> EOF]
ReadCancelled(ctxErr) == [v |-> Zero, e |-> ctxErr]

\* c.c <- v proceeds without a receiver while the buffer has room
HasRoom_OffByOne(q, k) == Len(q) <= k
HasRoom(q, k) == Len(q) < k

\* WriteContext: "case <-ctx.Done(): return ctx.Err()" leaves the queue as it is
AbortedSend_Enqueues(q, v) == Append(q, v)
AbortedSend(q, v) == q

\* Rest: res := append([]T(nil), make([]T, len(c.c))...)
RestInit(n) == Zeros(n)

\* the values of the log entries that carried a value
RECURSIVE ValuesOf(_)
ValuesOf(s) ==
    IF s = <<>> THEN <<>>
    ELSE IF s[1].e = Nil THEN <<s[1].v>> \o ValuesOf(Tail(s))
    ELSE ValuesOf(Tail(s))
delivered == ValuesOf(log)

\* ------------------------------------------------------------------ Init
\* New(), NewWithSize(i) leave an open channel; NewWithError(e) is
\* New() followed by CloseWithError(e).
NewWithSize(i) ==
    /\ cap = i
    /\ closed = FALSE
    /\ err = Nil
    /\ closedBy = NotClosed

New == NewWithSize(0)

NewWithError_NotClosed(e) ==
    /\ cap = 0
    /\ closed = FALSE
    /\ err = Normalize(e)
    /\ closedBy = [op |-> "NewWithError", arg |-> e, was |-> Nil]

NewWithError(e) ==
    /\ cap = 0
    /\ closed = TRUE
    /\ err = Normalize(e)
    /\ closedBy = [op |-> "NewWithError", arg |-> e, was |-> Nil]

InitChan ==
    \/ New
    \/ \E i \in 0..MaxCap : NewWithSize(i)
    \/ \E e \in ErrArgs : NewWithError(e)

\* the channel Intercept makes: out := New[T]()
NewOut == [buf |-> <<>>, closed |-> FALSE, err |-> Nil]

\* no Intercept call has been made
NoRelay ==
    /\ kmode = "none"
    /\ kpc = "none"
    /\ out = NewOut
    /\ outClosedN = 0
    /\ fncalls = <<>>
    /\ olog = <<>>
    /\ dpc = "idle"

InitRest ==
    /\ buf = <<>>
    /\ written = <<>>
    /\ log = <<>>
    /\ opc = [t \in Tasks |-> "idle"]
    /\ ocur = [t \in Tasks |-> NoCall]
    /\ outcome = [t \in Tasks |-> NoOutcome]
    /\ overlap = FALSE
    /\ rpc = [r \in Readers |-> "idle"]
    /\ rop = [r \in Readers |-> "none"]
    /\ res = [r \in Readers |-> <<>>]
    /\ got = [r \in Readers |-> <<>>]
    /\ ret = [r \in Readers |-> NoReturn]
    /\ rv = [r \in Readers |-> Zero]
    /\ cancelled = FALSE
    /\ aborted = <<>>
    /\ NoRelay

Init == InitChan /\ InitRest

\* ------------------------------------------------- producer side: Write
\* a call begins: its name and argument become the task's locals
Begin(t, call, v, e) ==
    ocur' = [ocur EXCEPT ![t] = [call |-> call, v |-> v, e |-> e, was |-> Nil]]

\* a call returns ("ok") or panics ("panic"); its locals are gone
Finish(t, how) ==
    /\ opc' = [opc EXCEPT ![t] = "idle"]
    /\ ocur' = [ocur EXCEPT ![t] = NoCall]
    /\ outcome' = [outcome EXCEPT ![t] = [call |-> ocur[t].call, res |-> how]]

\* the producer writes 1, 2, 3, ...: each value differs from the ones before
\* it and from the zero value
NextVal == Len(written) + Len(aborted) + 1

\* Write(v) is called; the task reaches the send statement
CallWrite(t, v) ==
    /\ opc[t] = "idle"
    /\ Len(written) < MaxWrites
    /\ Begin(t, "Write", v, Nil)
    /\ opc' = [opc EXCEPT ![t] = "send"]
    /\ UNCHANGED <<chanVars, written, log, outcome, overlap, readerVars, cancelled, aborted, relayVars>>

\* c.c <- v on a closed channel panics; the value goes nowhere
SendClosed(t) ==
    /\ opc[t] = "send"
    /\ SendPanics(closed)
    /\ Finish(t, "panic")
    /\ UNCHANGED <<chanVars, written, log, overlap, readerVars, cancelled, aborted, relayVars>>

\* c.c <- v with room in the buffer
SendBuffered(t) ==
    /\ opc[t] = "send"
    /\ ~SendPanics(closed)
    /\ HasRoom(buf, cap)
    /\ buf' = Append(buf, ocur[t].v)
    /\ written' = Append(written, ocur[t].v)
    /\ Finish(t, "ok")
    /\ UNCHANGED <<cap, closed, err, closedBy, log, overlap, readerVars, cancelled, aborted, relayVars>>

\* WriteContext(ctx, v) is called; the task reaches the select statement
CallWriteContext(t, v) ==
    /\ opc[t] = "idle"
    /\ Len(written) + Len(aborted) < MaxWrites
    /\ Begin(t, "WriteContext", v, Nil)
    /\ opc' = [opc EXCEPT ![t] = "send"]
    /\ UNCHANGED <<chanVars, written, log, outcome, overlap, readerVars, cancelled, aborted,
                   relayVars>>

\* WriteContext: "case <-ctx.Done(): return ctx.Err()"
WriteCtxDone(t) ==
    /\ opc[t] = "send"
    /\ ocur[t].call = "WriteContext"
    /\ cancelled
    /\ buf' = AbortedSend(buf, ocur[t].v)
    /\ aborted' = Append(aborted, ocur[t].v)
    /\ Finish(t, "ctxerr")
    /\ UNCHANGED <<cap, closed, err, closedBy, written, log, overlap, readerVars, cancelled,
                   relayVars>>

\* ------------------------------------- producer side: termination calls
Busy(t) ==
    opc[t] \in {"SetError_check", "SetError_store", "Close_check", "Close_store",
                "Close_close"}

\* a termination call begins; overlap notes that another one is in progress,
\* was is what c.err held when Close() was called
BeginTermination(t, call, e) ==
    /\ opc[t] = "idle"
    /\ overlap' = (overlap \/ \E u \in Tasks \ {t} : Busy(u))
    /\ ocur' = [ocur EXCEPT ![t] = [call |-> call, v |-> Zero, e |-> e,
                                    was |-> IF call = "Close" THEN err ELSE Nil]]

\* SetError(e) is called
CallSetError(t, e) ==
    /\ BeginTermination(t, "SetError", e)
    /\ opc' = [opc EXCEPT ![t] = "SetError_check"]
    /\ UNCHANGED <<chanVars, written, log, outcome, readerVars, cancelled, aborted, relayVars>>

\* CloseWithError(e) is called: "c.SetError(err)", then "c.Close()"
CallCloseWithError(t, e) ==
    /\ BeginTermination(t, "CloseWithError", e)
    /\ opc' = [opc EXCEPT ![t] = "SetError_check"]
    /\ UNCHANGED <<chanVars, written, log, outcome, readerVars, cancelled, aborted, relayVars>>

\* Close() is called
CallClose(t) ==
    /\ BeginTermination(t, "Close", Nil)
    /\ opc' = [opc EXCEPT ![t] = "Close_check"]
    /\ UNCHANGED <<chanVars, written, log, outcome, readerVars, cancelled, aborted, relayVars>>

\* SetError: the load of c.err and the panic on a non-nil value
SetErrorCheck(t) ==
    /\ opc[t] = "SetError_check"
    /\ IF SetErrorPanics(err)
       THEN Finish(t, "panic")
       ELSE /\ opc' = [opc EXCEPT ![t] = "SetError_store"]
            /\ UNCHANGED <<ocur, outcome>>
    /\ UNCHANGED <<chanVars, written, log, overlap, readerVars, cancelled, aborted, relayVars>>

\* SetError: the store "c.err = err" after the nil replacement; inside
\* CloseWithError the task goes on to Close
SetErrorStore(t) ==
    /\ opc[t] = "SetError_store"
    /\ err' = Normalize(ocur[t].e)
    /\ IF ocur[t].call = "CloseWithError"
       THEN /\ opc' = [opc EXCEPT ![t] = "Close_check"]
            /\ UNCHANGED <<outcome, ocur>>
       ELSE Finish(t, "ok")
    /\ UNCHANGED <<cap, buf, closed, closedBy, written, log, overlap, readerVars, cancelled, aborted, relayVars>>

\* Close: the load of c.err in "if c.err == nil"
CloseCheck(t) ==
    /\ opc[t] = "Close_check"
    /\ opc' = [opc EXCEPT ![t] = IF CloseStores(err) THEN "Close_store" ELSE "Close_close"]
    /\ UNCHANGED <<chanVars, written, log, ocur, outcome, overlap, readerVars, cancelled, aborted, relayVars>>

\* Close: the store "c.err = io.EOF"
CloseStore(t) ==
    /\ opc[t] = "Close_store"
    /\ err' = EOF
    /\ opc' = [opc EXCEPT ![t] = "Close_close"]
    /\ UNCHANGED <<cap, buf, closed, closedBy, written, log, ocur, outcome, overlap,
                   readerVars, cancelled, aborted, relayVars>>

\* Close: close(c.c)
CloseClose(t) ==
    /\ opc[t] = "Close_close"
    /\ IF ClosePanics(closed)
       THEN /\ Finish(t, "panic")
            /\ UNCHANGED <<closed, closedBy>>
       ELSE /\ closed' = TRUE
            /\ closedBy' = [op |-> ocur[t].call, arg |-> ocur[t].e, was |-> ocur[t].was]
            /\ Finish(t, "ok")
    /\ UNCHANGED <<cap, buf, err, written, log, overlap, readerVars, cancelled, aborted, relayVars>>

\* ------------------------------------------------------------ read side
\* the handle a reader holds: the core itself or a ReadOnly view of it
\* (ReadOnly{c: c}; each of its methods calls the method of c)
ViewOf(r) == IF r = "r1" THEN "C" ELSE "ReadOnly"

\* the read-side calls that loop over Read or ReadContext, and the calls
\* that pass a context
RestOps == {"Rest", "RestContext"}
DrainOps == {"Drain", "DrainContext"}
RangeOps == {"Range", "RangeContext"}
\* Drain called by the callback of Range: the frame of Range is below it
FnDrainOps == {"Range.Drain"}
CtxOps == {"ReadContext", "RestContext", "DrainContext", "RangeContext"}

\* Rest: "if err == io.EOF { break }" ... "return res, nil"
RestErr(e) == IF e = EOF THEN Nil ELSE e

\* Range: "if err == io.EOF { return nil }; if err != nil { return err }"
RangeErr_KeepsEOF(e) == e
RangeErr(e) == IF e = EOF THEN Nil ELSE e

\* Drain: "if err != nil { return }"
DrainStops_Always(e) == TRUE
DrainStops(e) == e # Nil

\* a read-side call of reader r returns; result is what Rest, Range or Drain
\* hands back, its locals are gone
Return(r, result) ==
    /\ ret' = [ret EXCEPT ![r] = result]
    /\ rpc' = [rpc EXCEPT ![r] = "idle"]
    /\ rop' = [rop EXCEPT ![r] = "none"]
    /\ res' = [res EXCEPT ![r] = <<>>]
    /\ got' = [got EXCEPT ![r] = <<>>]
    /\ rv' = [rv EXCEPT ![r] = Zero]

\* Range: what follows "err = fn(v)": a non-nil error is returned, nil
\* starts the next turn of the loop
RangeFnReturn_Continues(r, e) ==
    /\ rpc' = [rpc EXCEPT ![r] = "recv"]
    /\ rv' = [rv EXCEPT ![r] = Zero]
    /\ UNCHANGED <<rop, res, got, ret>>

RangeFnReturn(r, e) ==
    IF e # Nil
    THEN Return(r, [op |-> rop[r], vals |-> <<>>, e |-> e, got |-> <<>>])
    ELSE /\ rpc' = [rpc EXCEPT ![r] = "recv"]
         /\ rv' = [rv EXCEPT ![r] = Zero]
         /\ UNCHANGED <<rop, res, got, ret>>

\* Read/ReadContext returns (v, e) to its caller.  For a caller inside Rest,
\* Drain or Range this is one turn of the loop.  Rest: io.EOF ends it with a
\* nil error, another error ends it with that error, a value is appended to
\* res.  Drain: any error ends it, a value is dropped.  Range: an error ends
\* it (io.EOF as nil), a value is handed to the callback.  A Drain called
\* by the callback of Range returns into the callback.
ReadReturn(r, v, e) ==
    /\ log' = Append(log, [r |-> r, v |-> v, e |-> e])
    /\ IF rop[r] \in RestOps
       THEN IF e = Nil
            THEN /\ res' = [res EXCEPT ![r] = Append(res[r], v)]
                 /\ got' = [got EXCEPT ![r] = Append(got[r], v)]
                 /\ rpc' = [rpc EXCEPT ![r] = "recv"]
                 /\ UNCHANGED <<ret, rop, rv>>
            ELSE Return(r, [op |-> rop[r], vals |-> res[r], e |-> RestErr(e),
                            got |-> got[r]])
       ELSE IF rop[r] \in DrainOps
       THEN IF ~DrainStops(e)
            THEN /\ rpc' = [rpc EXCEPT ![r] = "recv"]
                 /\ UNCHANGED <<ret, rop, res, got, rv>>
            ELSE Return(r, [op |-> rop[r], vals |-> <<>>, e |-> Nil, got |-> <<>>])
       ELSE IF rop[r] \in RangeOps
       THEN IF e = Nil
            THEN /\ rpc' = [rpc EXCEPT ![r] = "fn"]
                 /\ rv' = [rv EXCEPT ![r] = v]
                 /\ UNCHANGED <<ret, rop, res, got>>
            ELSE Return(r, [op |-> rop[r], vals |-> <<>>, e |-> RangeErr(e),
                            got |-> <<>>])
       ELSE IF rop[r] \in FnDrainOps
       THEN IF ~DrainStops(e)
            THEN /\ rpc' = [rpc EXCEPT ![r] = "recv"]
                 /\ UNCHANGED <<ret, rop, res, got, rv>>
            ELSE /\ rpc' = [rpc EXCEPT ![r] = "fn_drained"]
                 /\ rop' = [rop EXCEPT ![r] = "Range"]
                 /\ UNCHANGED <<ret, res, got, rv>>
       ELSE Return(r, NoReturn)

\* Read() is called; the reader reaches the receive statement
CallRead(r) ==
    /\ rpc[r] = "idle"
    /\ Len(log) < MaxReads
    /\ rop' = [rop EXCEPT ![r] = "Read"]
    /\ rpc' = [rpc EXCEPT ![r] = "recv"]
    /\ UNCHANGED <<chanVars, written, log, ownerVars, res, got, ret, rv, cancelled, aborted,
                   relayVars>>

\* ReadContext(ctx) is called; the reader reaches the select statement
CallReadContext(r) ==
    /\ rpc[r] = "idle"
    /\ Len(log) < MaxReads
    /\ rop' = [rop EXCEPT ![r] = "ReadContext"]
    /\ rpc' = [rpc EXCEPT ![r] = "recv"]
    /\ UNCHANGED <<chanVars, written, log, ownerVars, res, got, ret, rv, cancelled, aborted,
                   relayVars>>

\* Rest() is called: the result slice is built from len(c.c), then the loop
\* makes its first Read
StartRest(r) ==
    /\ rpc[r] = "idle"
    /\ rop' = [rop EXCEPT ![r] = "Rest"]
    /\ res' = [res EXCEPT ![r] = RestInit(ChanLen)]
    /\ rpc' = [rpc EXCEPT ![r] = "recv"]
    /\ UNCHANGED <<chanVars, written, log, ownerVars, got, ret, rv, cancelled, aborted,
                   relayVars>>

CallRest(r) == Len(log) < MaxReads /\ StartRest(r)

\* Drain() or DrainContext(ctx) is called; the loop makes its first Read
CallDrain(r, op) ==
    /\ rpc[r] = "idle"
    /\ ret[r].op = "none"
    /\ rop' = [rop EXCEPT ![r] = op]
    /\ rpc' = [rpc EXCEPT ![r] = "recv"]
    /\ UNCHANGED <<chanVars, written, log, ownerVars, res, got, ret, rv, cancelled, aborted,
                   relayVars>>

\* Rest() is called by a reader whose Drain has returned
RestAfterDrain(r) == ret[r].op \in DrainOps /\ StartRest(r)

\* v, ok := <-c.c with a queued value: ok is true
Recv(r) ==
    /\ rpc[r] = "recv"
    /\ ~RecvNotOk(closed, buf)
    /\ buf # <<>>
    /\ buf' = RecvRest(buf)
    /\ ReadReturn(r, RecvValue(buf), Nil)
    /\ UNCHANGED <<cap, closed, err, closedBy, written, ownerVars, cancelled, aborted, relayVars>>

\* a sender blocked on a channel without room hands its value to a
\* receiver blocked on the empty channel
Handoff(t, r) ==
    /\ opc[t] = "send"
    /\ ~SendPanics(closed)
    /\ rpc[r] = "recv"
    /\ buf = <<>>
    /\ written' = Append(written, ocur[t].v)
    /\ Finish(t, "ok")
    /\ ReadReturn(r, ocur[t].v, Nil)
    /\ UNCHANGED <<chanVars, overlap, cancelled, aborted, relayVars>>

\* v, ok := <-c.c on a closed and empty channel: ok is false
RecvClosed(r) ==
    /\ rpc[r] = "recv"
    /\ RecvNotOk(closed, buf)
    /\ rpc' = [rpc EXCEPT ![r] = "err"]
    /\ UNCHANGED <<chanVars, written, log, ownerVars, rop, res, got, ret, rv, cancelled,
                   aborted, relayVars>>

\* "return zero, c.Err()"
ReadErr(r) ==
    /\ rpc[r] = "err"
    /\ ReadReturn(r, ReadClosed(Err).v, ReadClosed(Err).e)
    /\ UNCHANGED <<chanVars, written, ownerVars, cancelled, aborted, relayVars>>

\* ReadContext: "case <-ctx.Done(): return zero, ctx.Err()"
CtxDone(r) ==
    /\ rpc[r] = "recv"
    /\ rop[r] \in CtxOps
    /\ cancelled
    /\ ReadReturn(r, ReadCancelled(Canceled).v, ReadCancelled(Canceled).e)
    /\ UNCHANGED <<chanVars, written, ownerVars, cancelled, aborted, relayVars>>

\* the owner of the context cancels it
Cancel ==
    /\ ~cancelled
    /\ cancelled' = TRUE
    /\ UNCHANGED <<chanVars, written, log, ownerVars, readerVars, aborted, relayVars>>

\* RestContext(ctx) is called: the result slice is built from len(c.c), then
\* the loop makes its first ReadContext
CallRestContext(r) ==
    /\ rpc[r] = "idle"
    /\ ret[r].op = "none"
    /\ rop' = [rop EXCEPT ![r] = "RestContext"]
    /\ res' = [res EXCEPT ![r] = RestInit(ChanLen)]
    /\ rpc' = [rpc EXCEPT ![r] = "recv"]
    /\ UNCHANGED <<chanVars, written, log, ownerVars, got, ret, rv, cancelled, aborted,
                   relayVars>>

\* ------------------------------------------------- Range, RangeContext
\* a reader is, or has been, inside Range or RangeContext
IsRanger(r) == rop[r] \in RangeOps \cup FnDrainOps \/ ret[r].op \in RangeOps

\* Range(fn) or RangeContext(ctx, fn) is called, once per behaviour; the loop
\* makes its first Read
CallRange(r, op) ==
    /\ kmode = "none"
    /\ rpc[r] = "idle"
    /\ \A q \in Readers : ~IsRanger(q)
    /\ rop' = [rop EXCEPT ![r] = op]
    /\ rpc' = [rpc EXCEPT ![r] = "recv"]
    /\ UNCHANGED <<chanVars, written, log, ownerVars, res, got, ret, rv, cancelled, aborted,
                   relayVars>>

\* Range: "err = fn(v)"; the caller's fn answers nil or an error
RangeFn(r, e) ==
    /\ kmode = "none"
    /\ rpc[r] = "fn"
    /\ fncalls' = Append(fncalls, [v |-> rv[r], e |-> e])
    /\ RangeFnReturn(r, e)
    /\ UNCHANGED <<chanVars, written, log, ownerVars, cancelled, aborted, kmode, kpc, out,
                   outClosedN, olog, dpc>>

\* the callback of Range calls Drain() on the channel it is ranging over;
\* the loop of Drain makes its first Read
FnCallDrain(r) ==
    /\ kmode = "none"
    /\ rpc[r] = "fn" /\ rop[r] = "Range"
    /\ rop' = [rop EXCEPT ![r] = "Range.Drain"]
    /\ rpc' = [rpc EXCEPT ![r] = "recv"]
    /\ UNCHANGED <<chanVars, written, log, ownerVars, res, got, ret, rv, cancelled, aborted,
                   relayVars>>

\* Drain has returned into the callback, which returns the error e; Range
\* goes on as after any return of fn
FnReturnAfterDrain(r, e) ==
    /\ kmode = "none"
    /\ rpc[r] = "fn_drained"
    /\ fncalls' = Append(fncalls, [v |-> rv[r], e |-> e])
    /\ RangeFnReturn(r, e)
    /\ UNCHANGED <<chanVars, written, log, ownerVars, cancelled, aborted, kmode, kpc, out,
                   outClosedN, olog, dpc>>

\* Read() is called by a reader other than the one that ranges
ReadBesideRange(r) ==
    /\ \E q \in Readers \ {r} : IsRanger(q)
    /\ CallRead(r)

\* ------------------------------------------- Intercept, InterceptContext
\* The goroutine of Intercept is reader Relay running c.Range (c.RangeContext
\* for InterceptContext) on the upstream channel with the closure as callback;
\* kpc follows the goroutine around that call.  `out` has capacity zero, so
\* a send on it completes only by a hand-off to the downstream consumer.

\* the closure: "if innerErr != nil { return innerErr }", else the value is
\* written to out
Forwards_Never(innerErr) == FALSE
Forwards_Always(innerErr) == TRUE
Forwards(innerErr) == innerErr = Nil

\* the closure writes with out.Write(val) in Intercept and with
\* out.WriteContext(ctx, val) in InterceptContext
UsesWriteContext_Never(mode) == FALSE
UsesWriteContext(mode) == mode = "InterceptContext"

\* "if err != nil { out.SetError(err) }"
RelaySetsError_Never(e) == FALSE
RelaySetsError(e) == e # Nil

\* "defer out.Close()": the channel the deferred call closes
DeferredCloseOf_Upstream(mode) == "c"
DeferredCloseOf(mode) == "out"

\* Intercept(fn) or InterceptContext(ctx, fn) is called: out is made, the
\* goroutine starts and reaches the first receive of its Range
CallIntercept(mode) ==
    /\ kmode = "none"
    /\ rpc[Relay] = "idle"
    /\ kmode' = mode
    /\ kpc' = "range"
    /\ out' = NewOut
    /\ rop' = [rop EXCEPT ![Relay] = IF mode = "Intercept" THEN "Range" ELSE "RangeContext"]
    /\ rpc' = [rpc EXCEPT ![Relay] = "recv"]
    /\ UNCHANGED <<chanVars, written, log, ownerVars, res, got, ret, rv, cancelled, aborted,
                   outClosedN, fncalls, olog, dpc>>

\* the closure runs: "innerErr := fn(val)"; fn answers nil or an error
RelayFn(e) ==
    /\ kpc = "range"
    /\ rpc[Relay] = "fn"
    /\ fncalls' = Append(fncalls, [v |-> rv[Relay], e |-> e])
    /\ IF Forwards(e)
       THEN /\ rpc' = [rpc EXCEPT ![Relay] = "out_send"]
            /\ UNCHANGED <<rop, res, got, ret, rv>>
       ELSE RangeFnReturn(Relay, e)
    /\ UNCHANGED <<chanVars, written, log, ownerVars, cancelled, aborted, kmode, kpc, out,
                   outClosedN, olog, dpc>>

\* the send on out meets the downstream consumer blocked in its receive:
\* the consumer's Read returns (val, nil) and the closure returns nil
OutHandoff ==
    /\ kpc = "range"
    /\ rpc[Relay] = "out_send"
    /\ ~SendPanics(out.closed)
    /\ dpc = "recv"
    /\ out.buf = <<>>
    /\ olog' = Append(olog, [v |-> rv[Relay], e |-> Nil])
    /\ dpc' = "idle"
    /\ RangeFnReturn(Relay, Nil)
    /\ UNCHANGED <<chanVars, written, log, ownerVars, cancelled, aborted, kmode, kpc, out,
                   outClosedN, fncalls>>

\* out.WriteContext: "case <-ctx.Done(): return ctx.Err()"; the closure
\* returns that error
OutCtxDone ==
    /\ kpc = "range"
    /\ rpc[Relay] = "out_send"
    /\ UsesWriteContext(kmode)
    /\ cancelled
    /\ RangeFnReturn(Relay, Canceled)
    /\ UNCHANGED <<chanVars, written, log, ownerVars, cancelled, aborted, relayVars>>

\* Range has returned err: "if err != nil { out.SetError(err) }"
RelayRangeDone ==
    /\ kpc = "range"
    /\ rpc[Relay] = "idle"
    /\ kpc' = IF RelaySetsError(ret[Relay].e) THEN "SetError" ELSE "Close_store"
    /\ UNCHANGED <<chanVars, written, log, ownerVars, readerVars, cancelled, aborted, kmode,
                   out, outClosedN, fncalls, olog, dpc>>

\* out.SetError(err); if it panics the deferred Close still runs
RelaySetError ==
    /\ kpc = "SetError"
    /\ out' = IF SetErrorPanics(out.err) THEN out
              ELSE [out EXCEPT !.err = Normalize(ret[Relay].e)]
    /\ kpc' = "Close_store"
    /\ UNCHANGED <<chanVars, written, log, ownerVars, readerVars, cancelled, aborted, kmode,
                   outClosedN, fncalls, olog, dpc>>

\* the deferred out.Close(): "if c.err == nil { c.err = io.EOF }"
RelayCloseStore ==
    /\ kpc = "Close_store"
    /\ out' = IF CloseStores(out.err) THEN [out EXCEPT !.err = EOF] ELSE out
    /\ kpc' = "Close_close"
    /\ UNCHANGED <<chanVars, written, log, ownerVars, readerVars, cancelled, aborted, kmode,
                   outClosedN, fncalls, olog, dpc>>

\* the deferred out.Close(): close(c.c); the goroutine ends
RelayCloseClose ==
    /\ kpc = "Close_close"
    /\ IF DeferredCloseOf(kmode) = "out"
       THEN /\ IF ClosePanics(out.closed)
               THEN /\ kpc' = "panic"
                    /\ UNCHANGED <<out, outClosedN>>
               ELSE /\ out' = [out EXCEPT !.closed = TRUE]
                    /\ outClosedN' = outClosedN + 1
                    /\ kpc' = "done"
            /\ UNCHANGED closed
       ELSE /\ closed' = TRUE
            /\ kpc' = "done"
            /\ UNCHANGED <<out, outClosedN>>
    /\ UNCHANGED <<cap, buf, err, closedBy, written, log, ownerVars, readerVars, cancelled,
                   aborted, kmode, fncalls, olog, dpc>>

\* the downstream consumer calls out.Read() and reaches the receive; it
\* reads until a Read returns an error
OutCallRead ==
    /\ kmode # "none"
    /\ dpc = "idle"
    /\ \A i \in 1..Len(olog) : olog[i].e = Nil
    /\ dpc' = "recv"
    /\ UNCHANGED <<chanVars, written, log, ownerVars, readerVars, cancelled, aborted, kmode,
                   kpc, out, outClosedN, fncalls, olog>>

\* the consumer's receive on the closed and empty out: ok is false
OutRecvClosed ==
    /\ dpc = "recv"
    /\ RecvNotOk(out.closed, out.buf)
    /\ dpc' = "err"
    /\ UNCHANGED <<chanVars, written, log, ownerVars, readerVars, cancelled, aborted, kmode,
                   kpc, out, outClosedN, fncalls, olog>>

\* the consumer's Read: "return zero, c.Err()"
OutReadErr ==
    /\ dpc = "err"
    /\ olog' = Append(olog, ReadClosed(out.err))
    /\ dpc' = "idle"
    /\ UNCHANGED <<chanVars, written, log, ownerVars, readerVars, cancelled, aborted, kmode,
                   kpc, out, outClosedN, fncalls>>

\* -------------------------------------------------------- specifications
\* one producer-side owner; two readers, one holding the core and one a
\* ReadOnly view
Next ==
    \/ \E v \in {NextVal} : CallWrite(Owner, v)
    \/ SendClosed(Owner)
    \/ SendBuffered(Owner)
    \/ \E e \in ErrArgs : CallSetError(Owner, e)
    \/ \E e \in ErrArgs : CallCloseWithError(Owner, e)
    \/ CallClose(Owner)
    \/ SetErrorCheck(Owner)
    \/ SetErrorStore(Owner)
    \/ CloseCheck(Owner)
    \/ CloseStore(Owner)
    \/ CloseClose(Owner)
    \/ \E r \in Readers : CallRead(r)
    \/ \E r \in CtxCallers : CallReadContext(r)
    \/ \E r \in RestCallers : CallRest(r)
    \/ \E r \in Readers : Recv(r)
    \/ \E r \in Readers : RecvClosed(r)
    \/ \E r \in Readers : ReadErr(r)
    \/ \E r \in Readers : CtxDone(r)
    \/ \E r \in Readers : Handoff(Owner, r)
    \/ Cancel

Spec == Init /\ [][Next]_vars

\* two tasks each make one termination call on an open channel, with no
\* synchronisation between them; a reader observes the channel
InitRace == (\E i \in 0..MaxCap : NewWithSize(i)) /\ InitRest

FirstCall(t) == outcome[t].call = "none"

NextRace ==
    \/ \E t \in Tasks, e \in ErrArgs : FirstCall(t) /\ CallSetError(t, e)
    \/ \E t \in Tasks, e \in ErrArgs : FirstCall(t) /\ CallCloseWithError(t, e)
    \/ \E t \in Tasks : FirstCall(t) /\ CallClose(t)
    \/ \E t \in Tasks : SetErrorCheck(t)
    \/ \E t \in Tasks : SetErrorStore(t)
    \/ \E t \in Tasks : CloseCheck(t)
    \/ \E t \in Tasks : CloseStore(t)
    \/ \E t \in Tasks : CloseClose(t)
    \/ \E r \in Readers : CallRead(r)
    \/ \E r \in Readers : RecvClosed(r)
    \/ \E r \in Readers : ReadErr(r)

SpecRace == InitRace /\ [][NextRace]_vars

\* one producer writes with WriteContext and may close the channel; two
\* readers; the context may be cancelled at any moment
NextWriteContext ==
    \/ \E v \in {NextVal} : CallWriteContext(Owner, v)
    \/ SendClosed(Owner)
    \/ SendBuffered(Owner)
    \/ WriteCtxDone(Owner)
    \/ CallClose(Owner)
    \/ CloseCheck(Owner)
    \/ CloseStore(Owner)
    \/ CloseClose(Owner)
    \/ \E r \in Readers : CallRead(r)
    \/ \E r \in CtxCallers : CallReadContext(r)
    \/ \E r \in Readers : Recv(r)
    \/ \E r \in Readers : RecvClosed(r)
    \/ \E r \in Readers : ReadErr(r)
    \/ \E r \in Readers : CtxDone(r)
    \/ \E r \in Readers : Handoff(Owner, r)
    \/ Cancel

SpecWriteContext == Init /\ [][NextWriteContext]_vars

\* an upstream channel with its producer, one Intercept or InterceptContext
\* call on it, and one consumer of the channel that call returned.  The
\* producer keeps to the contract of the termination calls: it writes to
\* and closes an open channel only, and sets the error once.
MayWrite == ~closed
MaySetError == err = Nil
MayClose == ~closed

RelayStep ==
    \/ Recv(Relay)
    \/ RecvClosed(Relay)
    \/ ReadErr(Relay)
    \/ CtxDone(Relay)
    \/ \E e \in FnResults : RelayFn(e)
    \/ OutCtxDone
    \/ RelayRangeDone
    \/ RelaySetError
    \/ RelayCloseStore
    \/ RelayCloseClose

ConsumerStep ==
    \/ OutCallRead
    \/ OutRecvClosed
    \/ OutReadErr

NextIntercept ==
    \/ \E mode \in {"Intercept", "InterceptContext"} : CallIntercept(mode)
    \/ \E v \in {NextVal} : MayWrite /\ CallWrite(Owner, v)
    \/ SendBuffered(Owner)
    \/ Handoff(Owner, Relay)
    \/ \E e \in ErrArgs : MaySetError /\ CallSetError(Owner, e)
    \/ \E e \in ErrArgs : MaySetError /\ MayClose /\ CallCloseWithError(Owner, e)
    \/ MayClose /\ CallClose(Owner)
    \/ SetErrorCheck(Owner)
    \/ SetErrorStore(Owner)
    \/ CloseCheck(Owner)
    \/ CloseStore(Owner)
    \/ CloseClose(Owner)
    \/ RelayStep
    \/ OutHandoff
    \/ ConsumerStep
    \/ Cancel

SpecIntercept == Init /\ [][NextIntercept]_vars

\* the relay goroutine is scheduled whenever it can take a step on its own
RelayFair == WF_vars(RelayStep)

\* a downstream consumer that keeps reading: it calls Read again after every
\* return, and a send on out that meets its receive completes
ConsumerFair == WF_vars(ConsumerStep) /\ WF_vars(OutHandoff)

SpecRelayFair == SpecIntercept /\ RelayFair

SpecInterceptFair == SpecIntercept /\ RelayFair /\ ConsumerFair

\* a producer that writes up to MaxWrites values and then closes the
\* channel, a caller of Drain on the channel itself and a caller of
\* DrainContext on a ReadOnly view, with a context that is never cancelled;
\* each calls Rest once its drain has returned
ProducerStep ==
    \/ \E v \in {NextVal} : MayWrite /\ CallWrite(Owner, v)
    \/ SendBuffered(Owner)
    \/ MayClose /\ CallClose(Owner)
    \/ \E e \in ErrArgs : MaySetError /\ MayClose /\ CallCloseWithError(Owner, e)
    \/ SetErrorCheck(Owner)
    \/ SetErrorStore(Owner)
    \/ CloseCheck(Owner)
    \/ CloseStore(Owner)
    \/ CloseClose(Owner)

ReaderStep(r) ==
    \/ Recv(r)
    \/ RecvClosed(r)
    \/ ReadErr(r)

NextDrain ==
    \/ ProducerStep
    \/ \E r \in Readers \ CtxCallers : CallDrain(r, "Drain")
    \/ \E r \in CtxCallers : CallDrain(r, "DrainContext")
    \/ \E r \in Readers : RestAfterDrain(r)
    \/ \E r \in Readers : ReaderStep(r)
    \/ \E r \in Readers : Handoff(Owner, r)

\* every goroutine that can take a step is scheduled, and a sender and a
\* receiver blocked on the same channel meet
DrainFair ==
    /\ WF_vars(ProducerStep)
    /\ \A r \in Readers : WF_vars(ReaderStep(r))
    /\ WF_vars(\E r \in Readers : Handoff(Owner, r))

SpecDrain == Init /\ [][NextDrain]_vars /\ DrainFair

\* a producer that keeps to the contract, one call of Range (on the channel)
\* or RangeContext (on a ReadOnly view) with a callback that may fail, and
\* the other reader making plain Reads beside it
NextRange ==
    \/ ProducerStep
    \/ \E r \in Readers : Handoff(Owner, r)
    \/ \E r \in Readers \ CtxCallers : CallRange(r, "Range")
    \/ \E r \in CtxCallers : CallRange(r, "RangeContext")
    \/ \E r \in Readers, e \in FnResults : RangeFn(r, e)
    \/ \E r \in Readers : ReadBesideRange(r)
    \/ \E r \in Readers : ReaderStep(r)
    \/ \E r \in Readers : CtxDone(r)
    \/ Cancel

SpecRange == Init /\ [][NextRange]_vars

\* a producer that keeps to the contract and closes after its last write,
\* and one call of Range whose callback either accepts the value or calls
\* Drain and then returns an error
CallbackStep(r) ==
    \/ RangeFn(r, Nil)
    \/ FnCallDrain(r)
    \/ \E e \in FnErrs : FnReturnAfterDrain(r, e)

NextRangeDrain ==
    \/ ProducerStep
    \/ \E r \in Readers : Handoff(Owner, r)
    \/ \E r \in Readers : CallRange(r, "Range")
    \/ \E r \in Readers : CallbackStep(r)
    \/ \E r \in Readers : ReaderStep(r)

\* every goroutine that can take a step is scheduled, and a sender and a
\* receiver blocked on the same channel meet
RangeDrainFair ==
    /\ WF_vars(ProducerStep)
    /\ \A r \in Readers : WF_vars(ReaderStep(r))
    /\ \A r \in Readers : WF_vars(CallbackStep(r))
    /\ WF_vars(\E r \in Readers : Handoff(Owner, r))

SpecRangeDrain == Init /\ [][NextRangeDrain]_vars /\ RangeDrainFair

\* InterceptContext is started with a context that is already done, on a
\* channel whose producer keeps to the contract
NextInterceptCancelled ==
    \/ cancelled /\ CallIntercept("InterceptContext")
    \/ ProducerStep
    \/ Handoff(Owner, Relay)
    \/ RelayStep
    \/ OutHandoff
    \/ ConsumerStep
    \/ Cancel

SpecInterceptCancelled == Init /\ [][NextInterceptCancelled]_vars

\* a producer that keeps to the contract and readers that make their
\* context calls with a context that is already done: one reader makes one
\* call of ReadContext, RangeContext or RestContext, the other calls
\* DrainContext and then Rest
FirstCallOf(r) == ret[r].op = "none" /\ \A i \in 1..Len(log) : log[i].r # r

NextCancelled ==
    \/ ProducerStep
    \/ \E r \in Readers : Handoff(Owner, r)
    \/ Cancel
    \/ \E r \in CtxCallers : cancelled /\ FirstCallOf(r) /\ CallReadContext(r)
    \/ \E r \in CtxCallers : cancelled /\ FirstCallOf(r) /\ CallRange(r, "RangeContext")
    \/ \E r \in CtxCallers : cancelled /\ FirstCallOf(r) /\ CallRestContext(r)
    \/ \E r \in Readers \ CtxCallers : cancelled /\ FirstCallOf(r) /\ CallDrain(r, "DrainContext")
    \/ \E r \in Readers : RestAfterDrain(r)
    \/ \E r \in Readers, e \in FnResults : RangeFn(r, e)
    \/ \E r \in Readers : ReaderStep(r)
    \/ \E r \in Readers : CtxDone(r)

SpecCancelled == Init /\ [][NextCancelled]_vars

TypeOK ==
    /\ cap \in 0..MaxCap
    /\ closed \in BOOLEAN
    /\ err \in ErrArgs
    /\ Len(buf) <= cap

\* --------------------------------------------------------------- claims
Last(q) == q[Len(q)]
IsTerminal(e) == e \notin {Nil, Canceled}
\* a Read/ReadContext returned in this step
Returned == Len(log') = Len(log) + 1
\* reader r is the only task that has read, and all its reads were made by
\* the Rest call that ret[r] is the result of
SoleRest(r) ==
    /\ ret[r].op = "Rest"
    /\ \A i \in 1..Len(log) : log[i].r = r
    /\ Len(log) = Len(ret[r].got) + 1

\* C1: Order preservation of Rest.  When N values were written and the
\* channel was then closed by Close() with no error set, a single caller of
\* Rest() gets exactly the N values in write order and a nil error, whether
\* or not values were queued in the buffer when Rest was called.
C1_RestReturnsWritten ==
    \A r \in RestCallers :
        (SoleRest(r) /\ closedBy.op = "Close" /\ err = EOF)
            => (ret[r].vals = written /\ ret[r].e = Nil)

\* C2: Drain-then-terminal ordering of reads.  Every value a read returned
\* was written, in write order; a read returns the terminal error only when
\* the channel is closed and every written value has been returned, the
\* error being the sticky one with a zero value; after a terminal error no
\* later read returns a value, and every later Read returns the same error.
PrefixOf(p, q) == Len(p) <= Len(q) /\ p = SubSeq(q, 1, Len(p))
C2_DrainThenTerminal ==
    /\ PrefixOf(delivered, written)
    /\ \A i \in 1..Len(log) :
          IsTerminal(log[i].e) =>
              /\ closed /\ buf = <<>>
              /\ log[i].e = err /\ log[i].v = Zero
              /\ delivered = written
              /\ \A j \in (i + 1)..Len(log) : log[j].e \in {log[i].e, Canceled}
C2_Witness ==
    /\ closedBy.op \in {"Close", "CloseWithError"}
    /\ Len(log) >= 3
    /\ log[1].e = Nil
    /\ IsTerminal(log[Len(log) - 1].e)
    /\ IsTerminal(Last(log).e)

ByCloseWithError == closedBy.op = "CloseWithError"

\* C3 as stated: after CloseWithError(E) every subsequent Read returns the
\* zero value and E, and Err() returns E.
C3_EveryReadReturnsE ==
    /\ [](ByCloseWithError => Err = Normalize(closedBy.arg))
    /\ [][(ByCloseWithError /\ Returned /\ Last(log').e # Canceled)
            => (Last(log').v = Zero /\ Last(log').e = Normalize(closedBy.arg))]_vars

\* C3, amended: after CloseWithError(E) has returned, Err() returns E
\* (io.EOF for a nil E) and every subsequent Read that finds no queued
\* value, by either reader, through the core or the ReadOnly view, returns
\* the zero value and E.
C3_StickyBroadcast ==
    /\ [](ByCloseWithError => Err = Normalize(closedBy.arg))
    /\ [][(ByCloseWithError /\ Returned /\ buf = <<>> /\ Last(log').e # Canceled)
            => (Last(log').v = Zero /\ Last(log').e = Normalize(closedBy.arg))]_vars
C3_Witness ==
    /\ closedBy = [op |-> "CloseWithError", arg |-> "E1", was |-> Nil]
    /\ \E i, j \in 1..Len(log) :
          /\ log[i] = [r |-> "r1", v |-> Zero, e |-> "E1"]
          /\ log[j] = [r |-> "r2", v |-> Zero, e |-> "E1"]
          /\ ViewOf(log[i].r) = "C" /\ ViewOf(log[j].r) = "ReadOnly"
    /\ Err = "E1"

ByPlainClose == closedBy.op = "Close" /\ closedBy.was = Nil

\* C4: End-of-stream default.  After Close() on a channel on which no error
\* was set, Err() is io.EOF, and every Read/ReadContext whose receive finds
\* the channel closed and empty returns the zero value and io.EOF.
C4_EndOfStreamDefault ==
    /\ [](ByPlainClose => Err = EOF)
    /\ [][(ByPlainClose /\ \E r \in Readers : rpc[r] = "err" /\ rpc'[r] # "err")
            => (Returned /\ Last(log').v = Zero /\ Last(log').e = EOF)]_vars
C4_Witness ==
    /\ ByPlainClose
    /\ Err = EOF
    /\ written # <<>>
    /\ \E i \in 1..Len(log) : log[i] = [r |-> "r2", v |-> Zero, e |-> EOF]

\* a call ended in a panic in this step
Panicked(t) == outcome'[t] # outcome[t] /\ outcome'[t].res = "panic"

\* C5: The sticky error is write-once.  With a single owner, once c.err is
\* non-nil no step changes it; a step in which a call panics leaves it as it
\* was.
C5_ErrWriteOnce ==
    [][/\ err # Nil => err' = err
       /\ Panicked(Owner) => err' = err]_vars
C5_Witness ==
    /\ closedBy = [op |-> "Close", arg |-> Nil, was |-> "E1"]
    /\ err = "E1"
    /\ outcome[Owner].res = "panic"

\* the number of values reader r was handed
RECURSIVE CountBy(_, _)
CountBy(r, s) ==
    IF s = <<>> THEN 0
    ELSE (IF s[1].r = r /\ s[1].e = Nil THEN 1 ELSE 0) + CountBy(r, Tail(s))

\* C6: Exactly-once FIFO delivery with concurrent readers.  The values
\* handed to the readers, in the order of the receives, followed by the
\* values still queued, are exactly the values written, in write order: no
\* value is handed out twice or lost, and the readers' shares add up.
C6_ExactlyOnceFIFO ==
    /\ delivered \o buf = written
    /\ CountBy("r1", log) + CountBy("r2", log) + Len(buf) = Len(written)
C6_Witness ==
    /\ CountBy("r1", log) >= 1
    /\ CountBy("r2", log) >= 1
    /\ delivered = <<1, 2>>

\* C7: Write after close is fatal.  A send reached on a closed channel ends
\* in a panic and leaves the buffer, the written values and what readers
\* were given unchanged.
C7_WriteAfterClosePanics ==
    [][(opc[Owner] = "send" /\ closed /\ opc'[Owner] # "send")
         => /\ outcome'[Owner] = [call |-> "Write", res |-> "panic"]
            /\ buf' = buf /\ written' = written /\ log' = log]_vars
C7_Witness ==
    /\ closed
    /\ outcome[Owner] = [call |-> "Write", res |-> "panic"]
    /\ written # <<>>

\* C8: SetError on a channel whose sticky error is set panics and leaves the
\* error (and the channel) as it was.
C8_SetErrorTwicePanics ==
    [][(/\ opc[Owner] = "SetError_check" /\ ocur[Owner].call = "SetError"
        /\ err # Nil /\ opc'[Owner] # "SetError_check")
         => /\ outcome'[Owner] = [call |-> "SetError", res |-> "panic"]
            /\ opc'[Owner] = "idle"
            /\ err' = err /\ closed' = closed]_vars
C8_Witness ==
    /\ outcome[Owner] = [call |-> "SetError", res |-> "panic"]
    /\ err = "E1"
    /\ ~closed

\* C9: Closing twice is fatal.  On a closed channel, Close() and
\* CloseWithError(e) end in a panic; the channel stays closed and keeps its
\* sticky error.
C9_CloseTwicePanics ==
    [][closed =>
         /\ closed' /\ err' = err
         /\ (/\ ocur[Owner].call \in {"Close", "CloseWithError"}
             /\ opc[Owner] # "idle" /\ opc'[Owner] = "idle")
              => outcome'[Owner] = [call |-> ocur[Owner].call, res |-> "panic"]]_vars
C9_Witness ==
    /\ closed
    /\ closedBy.op = "CloseWithError"
    /\ outcome[Owner] = [call |-> "Close", res |-> "panic"]
    /\ err = "E1"

\* both tasks have made their call, and the two calls overlapped
RaceOver ==
    /\ overlap
    /\ \A t \in Tasks : opc[t] = "idle" /\ outcome[t].call # "none"

\* C10: Concurrent termination misuse fails loudly.  When two tasks call
\* SetError, Close or CloseWithError on an open channel at the same time,
\* at least one call panics and a stored sticky error is never overwritten.
C10_RaceFailsLoudly ==
    [][/\ err # Nil => err' = err
       /\ RaceOver' => \E t \in Tasks : outcome'[t].res = "panic"]_vars

\* C11: Cancellation does not consume.  A ReadContext that waits on an open
\* channel holding no value, with no writer offering one, and whose context
\* is cancelled, returns (zero value, the context's error); that return
\* changes nothing of the channel, and a value written after it is not
\* lost: it is queued or has been returned by a later read.
WaitingCancelled(r) ==
    /\ rop[r] = "ReadContext" /\ rpc[r] = "recv"
    /\ cancelled
    /\ ~closed /\ buf = <<>>
    /\ \A t \in Tasks : opc[t] # "send"
C11_CancelDoesNotConsume ==
    /\ [][\A r \in Readers :
            (WaitingCancelled(r) /\ rpc'[r] = "idle") =>
                /\ Returned
                /\ Last(log') = [r |-> r, v |-> Zero, e |-> Canceled]
                /\ UNCHANGED <<chanVars, written>>]_vars
    /\ []((\E i \in 1..Len(log) : log[i].e = Canceled) => delivered \o buf = written)
C11_Witness ==
    /\ ~closed /\ err = Nil
    /\ Len(log) = 2
    /\ log[1] = [r |-> "r2", v |-> Zero, e |-> Canceled]
    /\ log[2] = [r |-> "r1", v |-> 1, e |-> Nil]
    /\ written = <<1>>

\* C20: Capacity and backpressure.  On an open channel of capacity k, a
\* Write whose value finds fewer than k values queued completes without a
\* reader; a Write that finds k values queued and no reader waiting cannot
\* complete; so the number of completed writes never exceeds k plus the
\* number of values read, and with k = 0 every completed write was taken by
\* a reader.
Unread == Len(written) - Len(delivered)
NoReaderWaits == \A r \in Readers : rpc[r] # "recv"
WriteCanComplete == ENABLED (SendBuffered(Owner) \/ \E r \in Readers : Handoff(Owner, r))
C20_CapacityAndBackpressure ==
    /\ Len(written) <= cap + Len(delivered)
    /\ (opc[Owner] = "send" /\ ~closed /\ Unread < cap) => ENABLED SendBuffered(Owner)
    /\ (opc[Owner] = "send" /\ ~closed /\ Unread >= cap /\ NoReaderWaits) => ~WriteCanComplete
    /\ cap = 0 => delivered = written
C20_Witness ==
    /\ cap = 1 /\ ~closed
    /\ written = <<1>> /\ buf = <<1>>
    /\ log = <<>> /\ NoReaderWaits
    /\ opc[Owner] = "send" /\ ocur[Owner].call = "Write"

\* C12: A cancelled write is not delivered.  The step in which WriteContext
\* returns the context's error changes neither the queue nor the closed
\* flag nor what readers got, and the value of such a call is never queued,
\* written or read; the step in which WriteContext returns nil puts its
\* value into the channel once (at the tail of the buffer, or straight
\* into the hands of one reader), and no written value occurs twice.
RECURSIVE Elems(_)
Elems(q) == IF q = <<>> THEN {} ELSE {Head(q)} \cup Elems(Tail(q))
NoDuplicates(q) == Cardinality(Elems(q)) = Len(q)
Returns(t, call, how) ==
    /\ ocur[t].call = call
    /\ outcome'[t] = [call |-> call, res |-> how]
    /\ opc'[t] = "idle" /\ opc[t] # "idle"
C12_CancelledWriteNotDelivered ==
    /\ [][Returns(Owner, "WriteContext", "ctxerr") =>
              UNCHANGED <<chanVars, written, log>>]_vars
    /\ [][Returns(Owner, "WriteContext", "ok") =>
              /\ written' = Append(written, ocur[Owner].v)
              /\ \/ buf' = Append(buf, ocur[Owner].v) /\ log' = log
                 \/ /\ buf' = buf
                    /\ \E r \in Readers :
                          log' = Append(log, [r |-> r, v |-> ocur[Owner].v, e |-> Nil])
              /\ closed' = closed]_vars
    /\ [](/\ Elems(aborted) \cap (Elems(written) \cup Elems(buf) \cup Elems(delivered)) = {}
          /\ NoDuplicates(written)
          /\ delivered \o buf = written)
C12_Witness ==
    /\ aborted = <<1>>
    /\ written = <<2>> /\ delivered = <<2>>
    /\ outcome[Owner] = [call |-> "WriteContext", res |-> "ok"]
    /\ ~closed

\* what the calls of fn were given, what the downstream consumer received
FnVals == [i \in 1..Len(fncalls) |-> fncalls[i].v]
OutVals == ValuesOf(olog)
AllAccepted == \A i \in 1..Len(fncalls) : fncalls[i].e = Nil
RelayCancelled == ret[Relay].op = "RangeContext" /\ ret[Relay].e = Canceled
Relaying == kmode # "none" /\ AllAccepted /\ ~RelayCancelled

\* C13: Intercept preserves order and completeness.  While fn accepts every
\* value, the values received downstream are a prefix of the values fn was
\* called on, which are a prefix of the values read from the upstream, which
\* are a prefix of the values written: fn sees each value once, in order,
\* before it appears downstream.  When the upstream was closed without an
\* explicit error and the downstream consumer has got an error, it has
\* received exactly the written values before it and the error is io.EOF.
C13_InterceptOrderComplete ==
    Relaying =>
        /\ PrefixOf(OutVals, FnVals)
        /\ PrefixOf(FnVals, delivered)
        /\ PrefixOf(delivered, written)
        /\ NoDuplicates(written)
        /\ \A i \in 1..Len(olog) :
              (olog[i].e # Nil /\ err = EOF) =>
                  /\ closed
                  /\ olog[i] = [v |-> Zero, e |-> EOF]
                  /\ i > Len(written)
                  /\ OutVals = written /\ FnVals = written
C13_Witness ==
    /\ kmode = "Intercept"
    /\ closedBy.op = "Close"
    /\ written = <<1, 2>>
    /\ AllAccepted /\ FnVals = <<1, 2>>
    /\ olog = <<[v |-> 1, e |-> Nil], [v |-> 2, e |-> Nil], [v |-> Zero, e |-> EOF]>>

\* C14: Intercept short-circuit.  Once fn has returned an error e on its
\* i-th call, that call stays the last one, the relay has read nothing
\* further from the upstream, the downstream consumer has received exactly
\* the first i-1 values, out.err is nil or e, the relay ends with out closed
\* and out.err = e, and every error the consumer gets is e.
C14_InterceptShortCircuit ==
    \A i \in 1..Len(fncalls) :
        fncalls[i].e # Nil =>
            /\ i = Len(fncalls)
            /\ delivered = FnVals
            /\ OutVals = SubSeq(FnVals, 1, i - 1)
            /\ fncalls[i].v \notin Elems(OutVals)
            /\ out.err \in {Nil, fncalls[i].e}
            /\ kpc = "done" => (out.closed /\ out.err = fncalls[i].e)
            /\ \A j \in 1..Len(olog) :
                  olog[j].e # Nil => (j >= i /\ olog[j] = [v |-> Zero, e |-> fncalls[i].e])
C14_Witness ==
    /\ fncalls = <<[v |-> 1, e |-> Nil], [v |-> 2, e |-> "E2"]>>
    /\ olog = <<[v |-> 1, e |-> Nil], [v |-> Zero, e |-> "E2"]>>
    /\ kpc = "done"

\* C15: Intercept replicates the upstream terminal error.  When the
\* upstream is closed with an explicit error E and fn accepted every value,
\* the relay ends with out closed and out.err = E after fn has seen every
\* written value, and a consumer that gets an error has received every
\* written value and gets E.  For an upstream made by NewWithError(E), fn is
\* never called, the consumer receives no value and the relay ends with
\* out.err = E.
ExplicitError == closed /\ err \notin {Nil, EOF}
C15_InterceptReplicatesError ==
    /\ (Relaying /\ ExplicitError) =>
          /\ kpc = "done" => (out.closed /\ out.err = err /\ FnVals = written)
          /\ \A j \in 1..Len(olog) :
                olog[j].e # Nil => (olog[j] = [v |-> Zero, e |-> err] /\ OutVals = written)
    /\ (kmode # "none" /\ closedBy.op = "NewWithError" /\ ~RelayCancelled) =>
          /\ fncalls = <<>> /\ OutVals = <<>>
          /\ kpc = "done" => (out.closed /\ out.err = err)
          /\ \A j \in 1..Len(olog) : olog[j] = [v |-> Zero, e |-> err]
C15_Witness ==
    /\ closedBy.op = "CloseWithError" /\ closedBy.arg = "E1"
    /\ written = <<1>>
    /\ fncalls = <<[v |-> 1, e |-> Nil]>>
    /\ olog = <<[v |-> 1, e |-> Nil], [v |-> Zero, e |-> "E1"]>>

\* C18: The relay never terminates the upstream.  The closed flag and the
\* sticky error of the upstream change only in a step of its producer's
\* SetError, Close or CloseWithError; no step of the relay changes them.
ProducerTerminates ==
    /\ opc[Owner] \in {"SetError_store", "Close_store", "Close_close"}
    /\ opc'[Owner] # opc[Owner]
RelayMoves == kpc' # kpc \/ rpc'[Relay] # rpc[Relay] \/ fncalls' # fncalls
C18_RelayLeavesUpstream ==
    [][/\ (closed' # closed \/ err' # err) => ProducerTerminates
       /\ RelayMoves => (closed' = closed /\ err' = err /\ closedBy' = closedBy)]_vars
C18_Witness ==
    /\ kpc = "done" /\ out.closed
    /\ ~closed /\ err = Nil
    /\ \E i \in 1..Len(fncalls) : fncalls[i].e # Nil

\* C16: The relay always terminates the downstream.  close(out.c) is
\* executed at most once and never panics; out is closed only with a
\* non-nil out.err; when the relay goroutine has ended, out is closed.
\* With a scheduled relay and a consumer that keeps reading, once the
\* upstream is closed or fn has failed, out is eventually closed.
UpstreamOverOrFnFailed == kmode # "none" /\ (closed \/ ~AllAccepted)
C16_RelayTerminatesDownstream ==
    /\ [](/\ kpc # "panic"
          /\ outClosedN <= 1
          /\ out.closed => (out.err # Nil /\ outClosedN = 1)
          /\ kpc = "done" => out.closed)
    /\ (UpstreamOverOrFnFailed ~> out.closed)
C16_Witness ==
    /\ kmode = "InterceptContext"
    /\ closedBy = [op |-> "Close", arg |-> Nil, was |-> Nil]
    /\ kpc = "done" /\ out.closed /\ out.err = EOF /\ outClosedN = 1
    /\ written = <<1>> /\ OutVals = <<1>>

\* C17: InterceptContext cancellation.  When the context is done and the
\* relay waits in its receive on an open, empty upstream with no sender, or
\* in its send on out with no consumer receiving, its next step takes the
\* context's case and RangeContext returns the context's error; a relay
\* whose RangeContext returned the context's error ends with out closed and
\* out.err equal to that error.  With a scheduled relay, and with or
\* without a downstream consumer, a done context leads to out being closed.
BlockedOnUpstream ==
    /\ rpc[Relay] = "recv"
    /\ ~closed /\ buf = <<>>
    /\ \A t \in Tasks : opc[t] # "send"
BlockedOnDownstream == rpc[Relay] = "out_send" /\ dpc # "recv"
C17_InterceptContextCancel ==
    /\ [][(/\ kmode = "InterceptContext" /\ kpc = "range" /\ cancelled
           /\ BlockedOnUpstream \/ BlockedOnDownstream
           /\ rpc'[Relay] # rpc[Relay])
              => (RelayCancelled' /\ out' = out /\ olog' = olog)]_vars
    /\ []((RelayCancelled /\ kpc = "done") => (out.closed /\ out.err = Canceled))
    /\ ((kmode = "InterceptContext" /\ cancelled) ~> out.closed)
C17_Witness ==
    /\ kmode = "InterceptContext" /\ cancelled
    /\ RelayCancelled
    /\ fncalls = <<[v |-> 1, e |-> Nil]>>
    /\ olog = <<>> /\ dpc = "idle"
    /\ kpc = "done" /\ out.closed /\ out.err = Canceled
    /\ ~closed

\* C19: Drain terminates.  With a producer that writes finitely many values
\* and then closes the channel, every call of Drain, and of DrainContext
\* with a context that is never cancelled, eventually returns; once it has
\* returned the channel is closed and Len() is 0; a Rest that follows
\* returns no value, and a nil error when the sticky error is io.EOF.
Drained(r) == ret[r].op \in DrainOps \cup {"Rest"}
C19_DrainTerminates ==
    /\ \A r \in Readers : (rop[r] \in DrainOps) ~> Drained(r)
    /\ [](\A r \in Readers : Drained(r) => (closed /\ Len(buf) = 0))
    /\ [](\A r \in Readers :
             ret[r].op = "Rest" => (ret[r].vals = <<>> /\ (err = EOF => ret[r].e = Nil)))
C19_Witness ==
    /\ cap = 1
    /\ closedBy.op = "Close"
    /\ written = <<1, 2>>
    /\ \A i \in 1..Len(log) : log[i].r = "r1"
    /\ delivered = <<1, 2>>
    /\ ret["r1"] = [op |-> "Rest", vals |-> <<>>, e |-> Nil, got |-> <<>>]

\* C21: Len/Cap invariants.  No step changes Cap(); a channel made by
\* NewWithError has capacity 0; Len() is the number of values written and
\* not yet read, it lies between 0 and Cap(), and it is 0 on a channel of
\* capacity 0.
C21_LenCapInvariants ==
    /\ [][ChanCap' = ChanCap]_vars
    /\ [](/\ ChanLen = Len(written) - Len(delivered)
          /\ 0 <= ChanLen /\ ChanLen <= ChanCap
          /\ ChanCap = 0 => ChanLen = 0
          /\ closedBy.op = "NewWithError" => ChanCap = 0)
C21_Witness ==
    /\ ChanCap = 1 /\ ChanLen = 1
    /\ written = <<1, 2>> /\ delivered = <<1>>
    /\ closedBy.op = "Close" /\ closedBy.was = "E1"

\* C22: NewWithError.  A channel made by NewWithError(E) is closed, with
\* Len() = 0, Cap() = 0 and Err() = E (io.EOF for a nil E), and stays so;
\* a Read on it cannot block and every read returns (zero value, Err());
\* a Write on it cannot complete and panics.
FromNewWithError == closedBy.op = "NewWithError"
C22_NewWithError ==
    FromNewWithError =>
        /\ closed /\ ChanLen = 0 /\ ChanCap = 0
        /\ Err = Normalize(closedBy.arg)
        /\ closedBy.arg # Nil => Err = closedBy.arg
        /\ \A r \in Readers : rpc[r] = "recv" => ENABLED (RecvClosed(r) \/ CtxDone(r))
        /\ \A i \in 1..Len(log) : log[i].e # Canceled => log[i] = [r |-> log[i].r, v |-> Zero, e |-> Err]
        /\ written = <<>>
        /\ opc[Owner] = "send" => (ENABLED SendClosed(Owner) /\ ~WriteCanComplete)
        /\ outcome[Owner].call = "Write" => outcome[Owner].res = "panic"
C22_Witness ==
    /\ FromNewWithError /\ closedBy.arg = "E1"
    /\ outcome[Owner] = [call |-> "Write", res |-> "panic"]
    /\ log = <<[r |-> "r1", v |-> Zero, e |-> "E1"], [r |-> "r2", v |-> Zero, e |-> "E1"]>>

\* C23: Nil normalisation.  The store of SetError, alone or inside
\* CloseWithError, writes io.EOF for a nil argument and the argument
\* otherwise, never nil; a channel closed by CloseWithError or made by
\* NewWithError with a nil or an io.EOF argument has sticky error io.EOF;
\* after a SetError or CloseWithError that returned, Err() is not nil.
SetErrorStores == opc[Owner] = "SetError_store" /\ opc'[Owner] # "SetError_store"
C23_NilNormalisation ==
    /\ [][SetErrorStores =>
              /\ Err' # Nil
              /\ ocur[Owner].e \in {Nil, EOF} => Err' = EOF
              /\ ocur[Owner].e # Nil => Err' = ocur[Owner].e]_vars
    /\ [](closedBy.op \in {"CloseWithError", "NewWithError"} =>
              /\ Err # Nil
              /\ closedBy.arg \in {Nil, EOF} => Err = EOF)
    /\ []((outcome[Owner].call \in {"SetError", "CloseWithError"} /\ outcome[Owner].res = "ok")
              => Err # Nil)
C23_Witness ==
    /\ closedBy = [op |-> "CloseWithError", arg |-> Nil, was |-> Nil]
    /\ Err = EOF
    /\ log = <<[r |-> "r1", v |-> Zero, e |-> EOF]>>

\* C24: SetError does not close.  The step in which SetError(E) returns
\* leaves Err() = E (io.EOF for nil) and changes neither the closed flag
\* nor the queue; on an open channel with the error set a write with room
\* in the buffer can still complete, a read with a queued value can still
\* take it, and a read with nothing queued and no sender cannot return; a
\* Close() called with the error E set leaves Err() = E, and every
\* terminal error a read returns is Err(), with no value left queued.
PlainReadBlocked(r) ==
    /\ rpc[r] = "recv" /\ rop[r] = "Read"
    /\ ~closed /\ buf = <<>>
    /\ \A t \in Tasks : opc[t] # "send"
C24_SetErrorDoesNotClose ==
    /\ [][Returns(Owner, "SetError", "ok") =>
              /\ Err' # Nil
              /\ ocur[Owner].e # Nil => Err' = ocur[Owner].e
              /\ closed' = closed /\ buf' = buf /\ written' = written]_vars
    /\ []((Err # Nil /\ ~closed) =>
              /\ (opc[Owner] = "send" /\ Unread < cap) => ENABLED SendBuffered(Owner)
              /\ \A r \in Readers :
                    /\ (rpc[r] = "recv" /\ buf # <<>>) => ENABLED Recv(r)
                    /\ PlainReadBlocked(r) =>
                          ~ENABLED (Recv(r) \/ RecvClosed(r) \/ CtxDone(r) \/ Handoff(Owner, r)))
    /\ []((closedBy.op = "Close" /\ closedBy.was # Nil) => Err = closedBy.was)
    /\ [](\A i \in 1..Len(log) :
              IsTerminal(log[i].e) => (log[i].e = Err /\ closed /\ buf = <<>>))
C24_Witness ==
    /\ closedBy = [op |-> "Close", arg |-> Nil, was |-> "E1"]
    /\ Err = "E1"
    /\ written = <<1>>
    /\ log = <<[r |-> "r1", v |-> 1, e |-> Nil], [r |-> "r1", v |-> Zero, e |-> "E1"]>>

\* the returns of Read/ReadContext to reader r, in order
LogOf(r) == LET ByReader(x) == x.r = r IN SelectSeq(log, ByReader)
RangeReturned(r) == ret[r].op \in RangeOps
RangeWaitsCancelled(r) ==
    /\ rop[r] = "RangeContext" /\ rpc[r] = "recv"
    /\ cancelled
    /\ ~closed /\ buf = <<>>
    /\ \A t \in Tasks : opc[t] # "send"

\* C25: Range result.  While fn accepts every value, the values fn was
\* called on are the values Range has read, in read order, the last one
\* being in the callback's hands while it runs; a Range that has returned
\* without the context's error returned on a closed and drained channel,
\* nil if the sticky error is io.EOF and the sticky error otherwise; the
\* context's error comes only from RangeContext with a done context; on a
\* channel made by NewWithError fn is never called; a RangeContext that
\* waits on an open, empty channel with no sender and a done context
\* returns the context's error.
C25_RangeResult ==
    /\ [](\A r \in Readers :
            (IsRanger(r) /\ AllAccepted) =>
                /\ ValuesOf(LogOf(r)) = IF rpc[r] = "fn" THEN Append(FnVals, rv[r]) ELSE FnVals
                /\ (RangeReturned(r) /\ ret[r].e # Canceled) =>
                      /\ closed /\ buf = <<>>
                      /\ ret[r].e = IF Err = EOF THEN Nil ELSE Err
                /\ (RangeReturned(r) /\ ret[r].e = Canceled) =>
                      (ret[r].op = "RangeContext" /\ cancelled)
                /\ FromNewWithError => fncalls = <<>>)
    /\ [][\A r \in Readers :
            (RangeWaitsCancelled(r) /\ rpc'[r] # rpc[r]) =>
                (RangeReturned(r)' /\ ret'[r].e = Canceled /\ UNCHANGED <<chanVars, written>>)]_vars
C25_Witness ==
    /\ closedBy.op = "CloseWithError" /\ Err = "E1"
    /\ written = <<1, 2>>
    /\ AllAccepted /\ FnVals = <<1, 2>>
    /\ ret["r1"] = [op |-> "Range", vals |-> <<>>, e |-> "E1", got |-> <<>>]

C27_RestKeepsPartial ==
    \A r \in RestCallers :
        (SoleRest(r) /\ closed /\ err \notin {Nil, EOF})
            => (ret[r].vals = written /\ ret[r].e = err)

\* a step in which reader r, waiting in the select of a context call, ends
\* that wait: it takes a value, sees the channel closed, or sees ctx.Done()
LeavesSelect(r) ==
    /\ rop[r] \in CtxOps /\ rpc[r] = "recv"
    /\ rpc'[r] # "recv" \/ (Returned /\ Last(log').r = r)

\* C28: ReadContext with an already cancelled context.  On an open channel,
\* a ReadContext called after the context was cancelled, directly or by
\* RangeContext or RestContext, returns the context's error and takes no
\* value: nothing is received from the queue or from a blocked sender.
C28_CancelledReadReturnsCtxError ==
    [][\A r \in CtxCallers :
          (LeavesSelect(r) /\ ~closed) =>
              /\ Returned /\ Last(log').e = Canceled
              /\ buf' = buf /\ written' = written]_vars

\* C29: DrainContext with an already cancelled context does not proceed.
\* On an unbuffered channel whose producer writes one value and closes, a
\* reader that calls DrainContext with a cancelled context and then Rest,
\* no one else reading, gets exactly that value and a nil error from Rest.
C29_CancelledDrainConsumesNothing ==
    \A r \in Readers \ CtxCallers :
        (/\ ret[r].op = "Rest"
         /\ cap = 0 /\ Len(written) = 1 /\ closedBy.op = "Close"
         /\ \A i \in 1..Len(log) : log[i].r = r)
            => (ret[r].vals = written /\ ret[r].e = Nil)

\* C30: InterceptContext started with an already cancelled context forwards
\* nothing.  The callback is never invoked, the downstream channel never
\* holds or yields a value, and once closed its error is the context's.
C30_CancelledInterceptForwardsNothing ==
    (kmode = "InterceptContext") =>
        /\ fncalls = <<>>
        /\ OutVals = <<>> /\ out.buf = <<>>
        /\ out.closed => out.err = Canceled

\* C31: WriteContext panics when writing to a closed channel.  Whatever the
\* state of the context, a WriteContext whose select runs on a closed
\* channel ends in a panic and never returns a value.
C31_WriteContextPanicsOnClosed ==
    [][\A t \in Tasks :
          (/\ opc[t] = "send" /\ ocur[t].call = "WriteContext"
           /\ closed
           /\ opc'[t] # "send")
              => outcome'[t] = [call |-> "WriteContext", res |-> "panic"]]_vars

Accepted ==
    LET Ok(c) == c.e = Nil
        oks == SelectSeq(fncalls, Ok)
    IN [i \in 1..Len(oks) |-> oks[i].v]
InFlight == rpc[Relay] = "out_send"

C34_FnErrorNeverSwallowed ==
    \A i \in 1..Len(fncalls) :
        fncalls[i].e # Nil =>
            /\ kpc = "done" => out.err = fncalls[i].e
            /\ \A j \in 1..Len(olog) :
                  olog[j].e # Nil =>
                      /\ RestErr(olog[j].e) = fncalls[i].e
                      /\ RangeErr(olog[j].e) = fncalls[i].e

\* C35: closed implies error set.  With a single owner, whenever the queue
\* is closed the sticky error is non-nil, also in the middle of Close, and
\* every Read/ReadContext that returned a nil error returned a written
\* value: none returned the zero value with a nil error.
C35_ClosedImpliesErrSet ==
    /\ closed => Err # Nil
    /\ opc[Owner] = "Close_close" => Err # Nil
    /\ \A i \in 1..Len(log) :
          log[i].e = Nil => (log[i].v # Zero /\ log[i].v \in Elems(written))
C35_Witness ==
    /\ closedBy = [op |-> "Close", arg |-> Nil, was |-> Nil]
    /\ written = <<1>>
    /\ log = <<[r |-> "r1", v |-> 1, e |-> Nil], [r |-> "r1", v |-> Zero, e |-> EOF]>>

\* C36: an error obtained while ranging is sticky.  Once Range has returned
\* the error its callback produced, Err() returns that error.
C36_RangeErrorIsSticky ==
    \A r \in Readers :
        (/\ RangeReturned(r)
         /\ fncalls # <<>> /\ Last(fncalls).e # Nil
         /\ ret[r].e = Last(fncalls).e)
            => Err = Last(fncalls).e

\* the values the relay has read from the upstream
RelayRead == ValuesOf(LogOf(Relay))

\* C37: Intercept adds no buffering.  The channel made by Intercept or
\* InterceptContext never holds a value; at every moment at most one value
\* read by the relay from the upstream has not been received downstream;
\* and the relay receives a value from the upstream only when every value
\* it read before has been received by the downstream consumer.
C37_InterceptAddsNoBuffering ==
    /\ [](kmode # "none" =>
             /\ out.buf = <<>>
             /\ PrefixOf(OutVals, RelayRead)
             /\ Len(RelayRead) <= Len(OutVals) + 1)
    /\ [][(kmode # "none" /\ RelayRead' # RelayRead) => OutVals = RelayRead]_vars
C37_Witness ==
    /\ kmode = "Intercept"
    /\ InFlight
    /\ RelayRead = <<1, 2>> /\ FnVals = <<1, 2>>
    /\ OutVals = <<1>>
    /\ out.buf = <<>> /\ ~out.closed

\* C38: CloseWithError after SetError fails before closing.  On an open
\* channel whose sticky error is set, CloseWithError panics in the check of
\* its SetError: the step leaves the channel open with its queue and its
\* sticky error as they were.  A channel whose sticky error is set goes
\* from open to closed only in a plain Close(); while it is open a Write
\* can still be called and a queued value can still be received.
C38_CloseWithErrorAfterSetError ==
    /\ [][(/\ ocur[Owner].call = "CloseWithError" /\ opc[Owner] = "SetError_check"
           /\ err # Nil /\ ~closed
           /\ opc'[Owner] # opc[Owner])
              => /\ outcome'[Owner] = [call |-> "CloseWithError", res |-> "panic"]
                 /\ opc'[Owner] = "idle"
                 /\ ~closed' /\ err' = err /\ buf' = buf
                 /\ closedBy' = NotClosed]_vars
    /\ [][(err # Nil /\ opc[Owner] = "idle" /\ ~closed /\ closed')
              => closedBy'.op = "Close"]_vars
    /\ [][(~closed /\ closed' /\ closedBy'.op = "CloseWithError")
              => (closedBy'.was = Nil /\ err' = Normalize(closedBy'.arg))]_vars
    /\ []((/\ outcome[Owner] = [call |-> "CloseWithError", res |-> "panic"]
           /\ ~closed /\ opc[Owner] = "idle")
              => /\ Len(written) < MaxWrites => ENABLED CallWrite(Owner, NextVal)
                 /\ ENABLED CallClose(Owner)
                 /\ \A r \in Readers : (rpc[r] = "recv" /\ buf # <<>>) => ENABLED Recv(r))
C38_Witness ==
    /\ outcome[Owner] = [call |-> "CloseWithError", res |-> "panic"]
    /\ ~closed /\ Err = "E1"
    /\ written = <<1>>
    /\ log = <<[r |-> "r1", v |-> 1, e |-> Nil]>>

====
